---- MODULE Spec2Model ----
(***************************************************************************)
(* Model of LoadData (load_data.py): the URL registry (get_urls), the file *)
(* acquirer (download_file, unzip_file, convert_to_parquet, ismixed), the  *)
(* loaders built on it (download, download_epostcard, download_bmf) and    *)
(* the warehouse cache (sql_auth, close_sql, get_sql).                     *)
(*                                                                         *)
(* A file name is the pair <<stem, extension>>; a URL is a record whose    *)
(* final path segment is such a pair.  File contents are abstracted to a   *)
(* data id: the id determines the rows and the text lines of the file.     *)
(* Every handler is one atomic action (the program is single-threaded); an *)
(* uncaught exception ends the run, and NewSession starts the next run on  *)
(* the same disk.                                                          *)
(***************************************************************************)
EXTENDS Integers, Sequences, FiniteSets, TLC

VARIABLES
    irs_files,           \* downloads/IRS folder: file name -> content
    force_new_download,  \* main.force_new_download
    urls,                \* self.urls, the URL map
    data_dict,           \* self.data_dict: form -> loaded table
    sql_cache,           \* self.sql_cache: table name -> cached table
    nccs_files,          \* downloads/nccs folder: file name -> table on disk
    sql_connection,      \* self.sql_connection: "None", "open" or "closed"
    get_from_sql,        \* self.get_from_sql
    run,                 \* "running", or "failed" after an uncaught exception
    call                 \* the most recent call: arguments, effects, outcome

vars == <<irs_files, force_new_download, urls, data_dict, sql_cache,
          nccs_files, sql_connection, get_from_sql, run, call>>

-----------------------------------------------------------------------------
(* Bounds *)

\* data ids 1..MaxData are the payloads a server may return
MaxData == 2
\* characters of a text line before its newline, and leading blank lines
MaxLine == 3
MaxBlank == 2
\* lines of a registry file
MaxLines == 3
\* cells of a spreadsheet column
MaxColumn == 3
\* rows of a live-query result
MaxRows == 2

-----------------------------------------------------------------------------
(* Values *)

None == <<"None">>
NoCall == [op |-> "none"]
NoResponse == [html |-> FALSE, marker |-> FALSE]
EmptyMap == <<>>

DataIds == 1..MaxData
\* data id 0 is the body of an HTML page
HtmlData == 0

Raw(d) == [fmt |-> "raw", data |-> d, entries |-> <<>>]
Zip(d, names) == [fmt |-> "zip", data |-> d, entries |-> names]
Parquet(d) == [fmt |-> "parquet", data |-> d, entries |-> <<>>]

Url(h, s, e) == [host |-> h, stem |-> s, ext |-> e]

\* the archives a server may return for a .zip URL: their entry lists
ZipListings(url) ==
    { <<>>,
      << <<url.stem, "txt">> >>,
      << <<url.stem, "dat">>, <<url.stem, "txt">> >> }

\* the responses requests.get may return for a URL
Responses(url) ==
    { [html |-> TRUE, marker |-> m, content |-> Raw(HtmlData)] : m \in BOOLEAN }
    \cup
    { [html |-> FALSE, marker |-> m, content |-> c] :
        m \in BOOLEAN,
        c \in IF url.ext = "zip"
              THEN { Zip(d, l) : d \in DataIds, l \in ZipListings(url) }
              ELSE { Raw(d) : d \in DataIds } }

\* the text lines of a file, each a sequence of characters
Lines(d) ==
    CASE d = 0 -> << <<"<", "p", ">", "\n">> >>
      [] d = 1 -> << <<"\n">>, <<"a", "|", "b", ",", "c", "\n">> >>
      [] d = 2 -> << <<"\n">>, <<"a", "b", "\n">> >>
      [] d = 3 -> << <<"a", ",", "b", " ", "c", "\n">> >>
      [] OTHER -> << <<"a", " ", "b", "\n">> >>

\* the rows of a file: an identifier (a digit string) and a date field
Rows(d) ==
    CASE d = 0 -> <<>>
      [] d = 1 -> << [ein |-> <<1>>, date |-> "d1"], [ein |-> <<1>>, date |-> ""] >>
      [] d = 2 -> << [ein |-> <<2>>, date |-> "d2"] >>
      [] d = 3 -> << [ein |-> <<3>>, date |-> "d3"], [ein |-> <<0, 3>>, date |-> "d3"] >>
      [] OTHER -> << [ein |-> <<0, 2>>, date |-> "d4"] >>

-----------------------------------------------------------------------------
(* Files *)

exists(fs, path) == path \in DOMAIN fs

Write(fs, path, content) ==
    [p \in DOMAIN fs \cup {path} |-> IF p = path THEN content ELSE fs[p]]

Remove(fs, path) == [p \in DOMAIN fs \ {path} |-> fs[p]]

RECURSIVE ExtractAll(_, _, _)
ExtractAll(fs, names, d) ==
    IF names = <<>> THEN fs
    ELSE ExtractAll(Write(fs, Head(names), Raw(d)), Tail(names), d)

-----------------------------------------------------------------------------
(* Format Normalizer *)

Unset == "unset"

\* with open(file) as f: first_line = '\n'; while first_line == '\n' ...
RECURSIVE first_line(_)
first_line(lines) ==
    IF lines = <<>> THEN <<>>
    ELSE IF Head(lines) = <<"\n">> THEN first_line(Tail(lines))
    ELSE Head(lines)

In(ch, line) == \E i \in 1..Len(line) : line[i] = ch

sniff_comma_first(line, delim) ==
    IF In(",", line) THEN ","
    ELSE IF In("|", line) THEN "|"
    ELSE IF In(" ", line) THEN " "
    ELSE delim

\* lines 555-563: the if/elif chain over '|', ',' and ' '; delim keeps its
\* prior value otherwise
sniff(line, delim) ==
    IF In("|", line) THEN "|"
    ELSE IF In(",", line) THEN ","
    ELSE IF In(" ", line) THEN " "
    ELSE delim

\* the outcome of a call: the disk after it, the files it opened for reading,
\* the files it wrote, the messages it logged, its return value and its exception
Result(fs, read, wrote, log, ret, err) ==
    [fs |-> fs, read |-> read, wrote |-> wrote, log |-> log, ret |-> ret, err |-> err]

\* the outcome r of a nested call, after the caller's own reads and messages
Preceded(read, wrote, log, r) ==
    [r EXCEPT !.read = read \o @, !.wrote = wrote \o @, !.log = log \o @]

\* lines 167-170 of download: the same scan past blank lines
RECURSIVE download_first_line(_)
download_first_line(lines) ==
    IF lines = <<>> THEN <<>>
    ELSE IF Head(lines) = <<"\n">> THEN download_first_line(Tail(lines))
    ELSE Head(lines)

\* lines 171-179 of download: delim starts as self.irs_delim
download_sniff(line, delim) ==
    IF In("|", line) THEN "|"
    ELSE IF In(",", line) THEN ","
    ELSE IF In(" ", line) THEN " "
    ELSE delim

has_canonical_never(fs, target) == FALSE

\* line 538: os.path.exists(f'{f_name}.parquet')
has_canonical(fs, target) == exists(fs, target)

convert_to_parquet(fs, file_path) ==
    LET f_name == file_path[1]
        f_extension == file_path[2]
        target == <<f_name, "parquet">>
        written == Write(fs, target, Parquet(fs[file_path].data))
        line == first_line(Lines(fs[file_path].data))
    IN  IF has_canonical(fs, target)
        THEN Result(fs, <<>>, <<>>, <<>>, target, "none")
        ELSE IF f_extension = "csv"
        THEN Result(written, <<file_path>>, <<target>>, <<"converting">>, target, "none")
        ELSE IF f_extension = "xlsx"
        THEN Result(written, <<file_path>>, <<target>>, <<"converting">>, target, "none")
        ELSE IF f_extension = "dat"
        THEN IF sniff(line, Unset) = Unset
             THEN \* line 564: delim was never assigned
                  Result(fs, <<file_path>>, <<>>,
                         <<"converting", "unable to determine delimiter">>,
                         None, "UnboundLocalError")
             ELSE Result(written, <<file_path>>, <<target>>, <<"converting">>,
                         target, "none")
        ELSE Result(fs, <<>>, <<>>, <<"converting", "unsupported file type">>,
                    file_path, "none")

-----------------------------------------------------------------------------
(* Archive Expander *)

\* line 509: the warning for an entry count other than one
count_warning(unzipped_files) ==
    IF Len(unzipped_files) # 1 THEN <<"WARNING: more or less than one file">> ELSE <<>>

unzip_file(fs, output_file) ==
    IF fs[output_file].fmt # "zip"
    THEN Result(fs, <<output_file>>, <<>>, <<>>, None, "BadZipFile")
    ELSE LET unzipped_files == fs[output_file].entries
             extracted == ExtractAll(fs, unzipped_files, fs[output_file].data)
             warned == count_warning(unzipped_files)
         IN  IF unzipped_files = <<>>
             THEN \* the for loop at line 514 has no iteration: the method returns None
                  Result(extracted, <<output_file>>, <<>>, warned, None, "none")
             ELSE \* line 520 returns inside the first iteration
                  Preceded(<<output_file>>, unzipped_files, warned \o <<"extracted">>,
                           convert_to_parquet(extracted, Head(unzipped_files)))

-----------------------------------------------------------------------------
(* File Acquirer *)

\* fname = url.split('/')[-1]
FName(url) == <<url.stem, url.ext>>

needs_request_ignoring_force(fs, force_flag, url, force) ==
    force_flag \/ ~exists(fs, FName(url))

\* line 472: the condition under which requests.get is called
needs_request(fs, force_flag, url, force) ==
    force_flag \/ force \/ ~exists(fs, FName(url))

invalid_url_either(resp) == resp.html \/ resp.marker

\* line 480: the invalid-URL test on the response
invalid_url(resp) == resp.html /\ resp.marker

\* lines 483-487: remove a pre-existing target, then write the body
store_response(fs, output_file, resp) ==
    LET cleared == IF exists(fs, output_file) THEN Remove(fs, output_file) ELSE fs
    IN  Write(cleared, output_file, resp.content)

\* lines 495-499: unzip or normalize the target
dispatch(fs, url) ==
    IF url.ext = "zip" THEN unzip_file(fs, FName(url))
    ELSE convert_to_parquet(fs, FName(url))

download_file(fs, force_flag, url, force, resp) ==
    IF needs_request(fs, force_flag, url, force)
    THEN IF invalid_url(resp)
         THEN Result(fs, <<>>, <<>>, <<>>, None, "InvalidURL") @@ [net |-> <<url>>]
         ELSE Preceded(<<>>, <<FName(url)>>, <<"downloaded">>,
                       dispatch(store_response(fs, FName(url), resp), url))
              @@ [net |-> <<url>>]
    ELSE Preceded(<<>>, <<>>, <<"using existing">>, dispatch(fs, url)) @@ [net |-> <<>>]

-----------------------------------------------------------------------------
(* Actions of the file acquirer *)

Outcome(err) == IF err = "none" THEN "running" ELSE "failed"

\* the URLs download_file is called with
FileUrls ==
    { Url("irs", "ez", "csv"), Url("mirror", "ez", "csv"), Url("irs", "ep", "zip") }

\* line 43: the URL map before any registry line is parsed
NoUrls == [PF |-> EmptyMap, EZ |-> EmptyMap, Full |-> EmptyMap,
           BMF |-> EmptyMap, epostcard |-> EmptyMap]

DownloadFile(url, force, resp) ==
    /\ run = "running"
    /\ \E r \in { download_file(irs_files, force_new_download, url, force, resp) } :
           /\ irs_files' = r.fs
           /\ run' = Outcome(r.err)
           /\ call' = [op |-> "download_file", url |-> url, force |-> force,
                       had_local |-> exists(irs_files, FName(url)),
                       net |-> r.net,
                       resp |-> IF r.net = <<>> THEN NoResponse
                                ELSE [html |-> resp.html, marker |-> resp.marker],
                       log |-> r.log, ret |-> r.ret, err |-> r.err]
    /\ UNCHANGED <<force_new_download, urls, data_dict, sql_cache, nccs_files,
                   sql_connection, get_from_sql>>

\* the process ends and a new one starts: memory is lost, the disk is kept
NewSession ==
    /\ force_new_download' \in BOOLEAN
    /\ data_dict' = EmptyMap
    /\ sql_cache' = EmptyMap
    /\ sql_connection' = "None"
    /\ run' = "running"
    /\ call' = NoCall
    /\ UNCHANGED <<irs_files, urls, nccs_files, get_from_sql>>

InitFile ==
    /\ irs_files = EmptyMap
    /\ force_new_download \in BOOLEAN
    /\ urls = NoUrls
    /\ data_dict = EmptyMap
    /\ sql_cache = EmptyMap
    /\ nccs_files = EmptyMap
    /\ sql_connection = "None"
    /\ get_from_sql = FALSE
    /\ run = "running"
    /\ call = NoCall

NextFile ==
    \/ \E url \in FileUrls, force \in BOOLEAN :
         \E resp \in Responses(url) : DownloadFile(url, force, resp)
    \/ NewSession

SpecFile == InitFile /\ [][NextFile]_vars

-----------------------------------------------------------------------------
(* Actions of the format normalizer and the archive expander *)

\* the canonical artifacts written by the normalize calls made so far
Writes(c) == IF c.op = "convert_to_parquet" THEN c.writes ELSE <<>>

ConvertToParquet(file_path) ==
    /\ run = "running"
    /\ \E r \in { convert_to_parquet(irs_files, file_path) } :
           /\ irs_files' = r.fs
           /\ run' = Outcome(r.err)
           /\ call' = [op |-> "convert_to_parquet", file_path |-> file_path,
                       had_canonical |-> exists(irs_files, <<file_path[1], "parquet">>),
                       read |-> r.read, wrote |-> r.wrote, log |-> r.log,
                       ret |-> r.ret, err |-> r.err,
                       writes |-> Writes(call) \o r.wrote]
    /\ UNCHANGED <<force_new_download, urls, data_dict, sql_cache, nccs_files,
                   sql_connection, get_from_sql>>

\* the raw files the normalizer is handed: a download or an extracted entry
RawPaths == { <<"pf", "dat">>, <<"ez", "csv">>, <<"ep", "txt">> }

\* the acquisition directory before a normalize call: raw files, and the
\* canonical artifacts earlier runs left beside them
NormDisks ==
    { fs \in UNION { [P -> {Raw(d) : d \in DataIds \cup {HtmlData}}
                            \cup {Parquet(d) : d \in DataIds}] :
                      P \in SUBSET (RawPaths \cup {<<p[1], "parquet">> : p \in RawPaths}) } :
        /\ \A p \in DOMAIN fs : (fs[p].fmt = "parquet") <=> (p[2] = "parquet")
        /\ \A p \in DOMAIN fs : fs[p].data = HtmlData => p[2] = "txt" }

InitNorm ==
    /\ irs_files \in NormDisks
    /\ force_new_download = FALSE
    /\ urls = NoUrls
    /\ data_dict = EmptyMap
    /\ sql_cache = EmptyMap
    /\ nccs_files = EmptyMap
    /\ sql_connection = "None"
    /\ get_from_sql = FALSE
    /\ run = "running"
    /\ call = NoCall

NextNorm ==
    \E file_path \in DOMAIN irs_files \cap RawPaths : ConvertToParquet(file_path)

SpecNorm == InitNorm /\ [][NextNorm]_vars

\* the characters of a line before its newline
Alphabet == {"|", ",", " ", "a"}

TextLines ==
    { l \o <<"\n">> : l \in UNION { [1..n -> Alphabet] : n \in 0..MaxLine } }

\* a text file: blank lines, then at most one line of text
TextFiles ==
    { [i \in 1..n |-> <<"\n">>] \o t :
        n \in 0..MaxBlank, t \in {<<>>} \cup { <<l>> : l \in TextLines \ {<<"\n">>} } }

\* self.irs_delim, the delimiter download starts with
irs_delims == {",", "\t"}

\* the two sniffing sites applied to the same file
Sniff(lines, irs_delim) ==
    /\ run = "running"
    /\ call' = [op |-> "sniff", lines |-> lines,
                first_line |-> first_line(lines),
                delim |-> sniff(first_line(lines), Unset),
                download_first_line |-> download_first_line(lines),
                download_delim |-> download_sniff(download_first_line(lines), irs_delim)]
    /\ UNCHANGED <<irs_files, force_new_download, urls, data_dict, sql_cache,
                   nccs_files, sql_connection, get_from_sql, run>>

NextSniff == \E lines \in TextFiles, irs_delim \in irs_delims : Sniff(lines, irs_delim)

InitSniff ==
    /\ irs_files = EmptyMap
    /\ force_new_download = FALSE
    /\ urls = NoUrls
    /\ data_dict = EmptyMap
    /\ sql_cache = EmptyMap
    /\ nccs_files = EmptyMap
    /\ sql_connection = "None"
    /\ get_from_sql = FALSE
    /\ run = "running"
    /\ call = NoCall

SpecSniff == InitSniff /\ [][NextSniff]_vars

-----------------------------------------------------------------------------
(* Auxiliary loaders *)

\* index.astype('int64') on a digit string
RECURSIVE int64(_)
int64(digits) ==
    IF digits = <<>> THEN 0
    ELSE 10 * int64(SubSeq(digits, 1, Len(digits) - 1)) + digits[Len(digits)]

\* index.is_unique
is_unique(index) ==
    \A i, j \in 1..Len(index) : i # j => index[i] # index[j]

\* pd.read_csv: an empty field is read as NaN, also under dtype='str'
na_filter(field) == IF field = "" THEN "NaN" ELSE field

\* lines 411-416: the rows of the headerless two-column file
read_epostcard(d) ==
    [i \in 1..Len(Rows(d)) |->
        [EIN |-> Rows(d)[i].ein, EPOSTCARD |-> na_filter(Rows(d)[i].date)]]

\* lines 417-418: the identifier becomes the integer index
index_epostcard(df) ==
    [i \in 1..Len(df) |-> [EIN |-> int64(df[i].EIN), EPOSTCARD |-> df[i].EPOSTCARD]]

drop_null_dates_and_nan(df) ==
    SelectSeq(df, LAMBDA r : r.EPOSTCARD # "" /\ r.EPOSTCARD # "NaN")

\* line 419: df[df[date_col] != '']
drop_null_dates(df) == SelectSeq(df, LAMBDA r : r.EPOSTCARD # "")

Column(df, c) == [i \in 1..Len(df) |-> df[i][c]]

epostcard_fetch_unforced(fs, force_flag, url, resp) ==
    download_file(fs, force_flag, url, FALSE, resp)

\* line 409: the notice-filing file is always fetched with force=True
epostcard_fetch(fs, force_flag, url, resp) ==
    download_file(fs, force_flag, url, TRUE, resp)

\* an uncaught exception: rows are the identifiers read so far, if any were
Failed(fs, net, rows, err) ==
    [fs |-> fs, net |-> net, rows |-> rows, ret |-> <<>>, err |-> err]

download_epostcard(fs, force_flag, urlmap, resp) ==
    IF urlmap.epostcard = EmptyMap
    THEN \* no registry line matched: url is {} and url.split fails
         Failed(fs, <<>>, <<>>, "AttributeError")
    ELSE LET r == epostcard_fetch(fs, force_flag, urlmap.epostcard, resp)
         IN  IF r.err # "none" THEN Failed(r.fs, r.net, <<>>, r.err)
             ELSE IF r.ret = None THEN Failed(r.fs, r.net, <<>>, "ValueError")
             ELSE IF r.fs[r.ret].fmt # "raw"
             THEN \* pd.read_csv on the bytes of a columnar file
                  Failed(r.fs, r.net, <<>>, "UnicodeDecodeError")
             ELSE IF r.fs[r.ret].data = HtmlData
             THEN Failed(r.fs, r.net, <<>>, "ValueError")
             ELSE LET read == read_epostcard(r.fs[r.ret].data)
                      df == drop_null_dates(index_epostcard(read))
                  IN  IF is_unique(Column(df, "EIN"))
                      THEN [fs |-> r.fs, net |-> r.net, rows |-> Column(read, "EIN"),
                            ret |-> df, err |-> "none"]
                      ELSE Failed(r.fs, r.net, Column(read, "EIN"), "AssertionError")

\* pd.read_parquet of a region partition: its identifiers, typed by the
\* columnar reader's inference (digit strings become integers)
read_partition(d) == [i \in 1..Len(Rows(d)) |-> int64(Rows(d)[i].ein)]

has_ein(d) == d # HtmlData

Perms(S) ==
    { s \in [1..Cardinality(S) -> S] : \A i, j \in DOMAIN s : i # j => s[i] # s[j] }

\* line 448: assert(df.index.is_unique)
assert_unique(index) == is_unique(index)

\* lines 447-449: concatenate the partitions, index by EIN, assert uniqueness
bmf_concat(fs, net, bmf_data) ==
    LET index == [i \in 1..Len(bmf_data) |-> read_partition(bmf_data[i])]
        RECURSIVE Flat(_)
        Flat(ss) == IF ss = <<>> THEN <<>> ELSE Head(ss) \o Flat(Tail(ss))
    IN  IF bmf_data = <<>> THEN Failed(fs, net, <<>>, "ValueError")
        ELSE IF \A i \in 1..Len(bmf_data) : ~has_ein(bmf_data[i])
        THEN Failed(fs, net, <<>>, "KeyError")
        ELSE IF assert_unique(Flat(index))
        THEN [fs |-> fs, net |-> net, rows |-> Flat(index),
              ret |-> [i \in 1..Len(Flat(index)) |-> [EIN |-> Flat(index)[i]]],
              err |-> "none"]
        ELSE Failed(fs, net, Flat(index), "AssertionError")

\* lines 436-446: one region after the other, in the order of the map's keys
RECURSIVE bmf_loop(_, _, _, _, _, _, _)
bmf_loop(fs, force_flag, bmf, regions, resps, net, bmf_data) ==
    IF regions = <<>> THEN bmf_concat(fs, net, bmf_data)
    ELSE LET region == Head(regions)
             r == download_file(fs, force_flag, bmf[region], FALSE, resps[region])
             sent == net \o r.net
         IN  IF r.err # "none" THEN Failed(r.fs, sent, <<>>, r.err)
             ELSE IF r.ret = None
             THEN \* os.path.splitext(None)
                  Failed(r.fs, sent, <<>>, "TypeError")
             ELSE IF r.ret[2] \in {"parquet", "csv"}
             THEN bmf_loop(r.fs, force_flag, bmf, Tail(regions), resps, sent,
                           Append(bmf_data, r.fs[r.ret].data))
             ELSE \* self.main.logger(...): the logger object is called
                  Failed(r.fs, sent, <<>>, "TypeError")

download_bmf(fs, force_flag, urlmap, regions, resps) ==
    bmf_loop(fs, force_flag, urlmap.BMF, regions, resps, <<>>, <<>>)

-----------------------------------------------------------------------------
(* Actions of the auxiliary loaders *)

DownloadEpostcard(resp) ==
    /\ run = "running"
    /\ \E r \in { download_epostcard(irs_files, force_new_download, urls, resp) } :
           /\ irs_files' = r.fs
           /\ run' = Outcome(r.err)
           /\ call' = [op |-> "download_epostcard",
                       had_local |-> /\ urls.epostcard # EmptyMap
                                     /\ exists(irs_files, FName(urls.epostcard)),
                       net |-> r.net, rows |-> r.rows, ret |-> r.ret, err |-> r.err]
    /\ UNCHANGED <<force_new_download, urls, data_dict, sql_cache, nccs_files,
                   sql_connection, get_from_sql>>

DownloadBmf(regions, resps) ==
    /\ run = "running"
    /\ \E r \in { download_bmf(irs_files, force_new_download, urls, regions, resps) } :
           /\ irs_files' = r.fs
           /\ run' = Outcome(r.err)
           /\ call' = [op |-> "download_bmf", net |-> r.net, rows |-> r.rows,
                       ret |-> r.ret, err |-> r.err]
    /\ UNCHANGED <<force_new_download, urls, data_dict, sql_cache, nccs_files,
                   sql_connection, get_from_sql>>

Region1 == "region1" :> Url("irs", "r1", "csv")
Region2 == "region2" :> Url("irs", "r2", "csv")

\* URL maps get_urls may have built from epostcard.txt and bmf.txt
AuxUrlMaps ==
    { [NoUrls EXCEPT !.epostcard = e] :
        e \in {Url("irs", "ep", "zip"), Url("irs", "ep", "txt")} }
    \cup
    { [NoUrls EXCEPT !.BMF = b] : b \in {Region1, Region1 @@ Region2} }

InitAux ==
    /\ irs_files = EmptyMap
    /\ force_new_download \in BOOLEAN
    /\ urls \in AuxUrlMaps
    /\ data_dict = EmptyMap
    /\ sql_cache = EmptyMap
    /\ nccs_files = EmptyMap
    /\ sql_connection = "None"
    /\ get_from_sql = FALSE
    /\ run = "running"
    /\ call = NoCall

NextAux ==
    \/ \E resp \in IF urls.epostcard = EmptyMap THEN {None}
                   ELSE Responses(urls.epostcard) :
         DownloadEpostcard(resp)
    \/ \E regions \in Perms(DOMAIN urls.BMF) :
         \E resps \in [DOMAIN urls.BMF -> UNION {Responses(urls.BMF[g]) : g \in DOMAIN urls.BMF}] :
           DownloadBmf(regions, resps)
    \/ NewSession

SpecAux == InitAux /\ [][NextAux]_vars

-----------------------------------------------------------------------------
(* Core File Loader *)

\* main.forms, the requested forms in order
forms == <<"EZ", "Full">>

\* self.core_file_year, the configured release year
core_file_year == 2020

Unbound == [bound |-> FALSE]

\* a table as read from an artifact: EIN is still a column
Table(d) == [bound |-> TRUE, data |-> d, EIN |-> IF has_ein(d) THEN "column" ELSE "absent",
             SOURCE |-> None]

\* lines 152-183: read the artifact by its extension; an unsupported extension
\* is logged and df keeps whatever it held
load_artifact(fs, file, df) ==
    IF file[2] \in {"xlsx", "csv", "parquet", "dat"} THEN Table(fs[file].data)
    ELSE df

NoInfo == <<0, "">>

Stopped(fs, net, dd, err, info, at) ==
    [fs |-> fs, net |-> net, dd |-> dd, err |-> err, errinfo |-> info, at |-> at]

source_of_file(url, file) == file

\* line 192: url.split('/')[-1], not the name of the file that was read
source(url, file) == FName(url)

RECURSIVE download_loop(_, _, _, _, _, _, _, _)

skip_missing_url(fs, force_flag, urlmap, resps, i, net, dd, df) ==
    download_loop(fs, force_flag, urlmap, resps, i + 1, net, dd, df)

\* lines 147-149: the KeyError of the lookup becomes the fatal exception
on_missing_url(fs, force_flag, urlmap, resps, i, net, dd, df) ==
    Stopped(fs, net, dd, "MissingURL", <<core_file_year, forms[i]>>, i)

\* lines 143-193, from the i-th form on; df is the loop's local variable
download_loop(fs, force_flag, urlmap, resps, i, net, dd, df) ==
    IF i > Len(forms) THEN Stopped(fs, net, dd, "none", NoInfo, i)
    ELSE LET form == forms[i] IN
         IF core_file_year \notin DOMAIN urlmap[form]
         THEN on_missing_url(fs, force_flag, urlmap, resps, i, net, dd, df)
         ELSE LET url == urlmap[form][core_file_year]
                  r == download_file(fs, force_flag, url, FALSE, resps[form])
                  sent == net \o r.net
                  loaded == load_artifact(r.fs, r.ret, df)
                  indexed == [loaded EXCEPT !.EIN = "index", !.SOURCE = source(url, r.ret)]
              IN  IF r.err # "none" THEN Stopped(r.fs, sent, dd, r.err, NoInfo, i)
                  ELSE IF r.ret = None
                  THEN Stopped(r.fs, sent, dd, "TypeError", NoInfo, i)
                  ELSE IF ~loaded.bound
                  THEN Stopped(r.fs, sent, dd, "UnboundLocalError", NoInfo, i)
                  ELSE IF loaded.EIN # "column"
                  THEN \* df.set_index('EIN') without an EIN column
                       Stopped(r.fs, sent, dd, "KeyError", NoInfo, i)
                  ELSE download_loop(r.fs, force_flag, urlmap, resps, i + 1, sent,
                                     Write(dd, form, indexed), indexed)

download(fs, force_flag, urlmap, resps, dd) ==
    download_loop(fs, force_flag, urlmap, resps, 1, <<>>, dd, Unbound)

Download(resps) ==
    /\ run = "running"
    /\ \E r \in { download(irs_files, force_new_download, urls, resps, data_dict) } :
           /\ irs_files' = r.fs
           /\ data_dict' = r.dd
           /\ run' = Outcome(r.err)
           /\ call' = [op |-> "download", net |-> r.net, err |-> r.err,
                       errinfo |-> r.errinfo, at |-> r.at]
    /\ UNCHANGED <<force_new_download, urls, sql_cache, nccs_files,
                   sql_connection, get_from_sql>>

EzUrl == Url("irs", "ez", "csv")
FullUrl == Url("irs", "full", "csv")
FullTxt == Url("irs", "full", "txt")
PriorYear == core_file_year - 1

\* URL maps get_urls may have built from ez.txt and full.txt
CoreUrlMaps ==
    { [NoUrls EXCEPT !.EZ = ez, !.Full = full] :
        ez \in {core_file_year :> EzUrl, PriorYear :> EzUrl},
        full \in {core_file_year :> FullUrl, core_file_year :> FullTxt, EmptyMap} }

InitCore ==
    /\ irs_files = EmptyMap
    /\ force_new_download \in BOOLEAN
    /\ urls \in CoreUrlMaps
    /\ data_dict = EmptyMap
    /\ sql_cache = EmptyMap
    /\ nccs_files = EmptyMap
    /\ sql_connection = "None"
    /\ get_from_sql = FALSE
    /\ run = "running"
    /\ call = NoCall

FormResponses ==
    [ {"EZ", "Full"} -> Responses(EzUrl) ]

NextCore ==
    \/ \E resps \in FormResponses : Download(resps)
    \/ NewSession

SpecCore == InitCore /\ [][NextCore]_vars

-----------------------------------------------------------------------------
(* URL Registry *)

\* A registry line is the sequence of its lexical tokens, without the newline.
\* A registry URL is kept as the matched text; Url(h, s, e) above is the
\* loaders' view of such a text.
Extensions == {".dat", ".zip", ".csv", ".txt", ".xlsx"}
Schemes == {"http://", "https://"}
Years == {"2020", "2019"}
Regions == {"region1", "region2"}

\* int(regex_match.group(1))
int(digits) == IF digits = "2020" THEN 2020 ELSE 2019

\* \s* from position i on: the position of the first token that is not a space
RECURSIVE skip_ws(_, _)
skip_ws(line, i) ==
    IF i <= Len(line) /\ line[i] = " " THEN skip_ws(line, i + 1) ELSE i

\* lines 63-64, 90-91, 113-114: re.match of
\* (key)\s*=\s*(https?://.+\.(dat|zip|csv|txt|xlsx))\s* at the start of the
\* line; .+ is greedy, so the URL runs to the last extension on the line, and
\* nothing anchors the end of the line
regex(keys, line) ==
    LET i == skip_ws(line, 2)
        j == skip_ws(line, i + 1)
        ends == { k \in (j + 2)..Len(line) : line[k] \in Extensions }
        last == CHOOSE k \in ends : \A n \in ends : n <= k
    IN  IF /\ line # <<>>
           /\ line[1] \in keys
           /\ i <= Len(line) /\ line[i] = "="
           /\ j <= Len(line) /\ line[j] \in Schemes
           /\ ends # {}
        THEN [matched |-> TRUE, key |-> line[1], url |-> SubSeq(line, j, last)]
        ELSE [matched |-> FALSE]

\* re.compile(r'^#').match(line)
skipline(line) == line # <<>> /\ line[1] = "#"

RECURSIVE form_lines_keep_last(_, _)
form_lines_keep_last(lines, years) ==
    IF lines = <<>> THEN years
    ELSE LET regex_match == regex(Years, Head(lines))
         IN  form_lines_keep_last(Tail(lines),
                        IF regex_match.matched /\ ~skipline(Head(lines))
                        THEN int(regex_match.key) :> regex_match.url
                        ELSE years)

\* lines 68-74: the lines of one form's file, in order
RECURSIVE form_lines(_, _)
form_lines(lines, years) ==
    IF lines = <<>> THEN years
    ELSE LET regex_match == regex(Years, Head(lines))
         IN  form_lines(Tail(lines),
                        IF regex_match.matched /\ ~skipline(Head(lines))
                        THEN Write(years, int(regex_match.key), regex_match.url)
                        ELSE years)

\* lines 66-74: one file per requested form
RECURSIVE form_urls(_, _, _)
form_urls(entries, settings, i) ==
    IF i > Len(forms) THEN entries
    ELSE form_urls([entries EXCEPT ![forms[i]] = form_lines(settings[forms[i]], @)],
                   settings, i + 1)

\* lines 94-99: the last matching line is the notice-filing URL
RECURSIVE epost_urls(_, _)
epost_urls(entries, lines) ==
    IF lines = <<>> THEN entries
    ELSE LET regex_match == regex({"epostcard"}, Head(lines))
         IN  epost_urls(IF regex_match.matched /\ ~skipline(Head(lines))
                        THEN [entries EXCEPT !.epostcard = regex_match.url]
                        ELSE entries,
                        Tail(lines))

\* lines 117-123: one URL per region key
RECURSIVE bmf_urls(_, _)
bmf_urls(entries, lines) ==
    IF lines = <<>> THEN entries
    ELSE LET regex_match == regex(Regions, Head(lines))
         IN  bmf_urls(IF regex_match.matched /\ ~skipline(Head(lines))
                      THEN [entries EXCEPT !.BMF = Write(@, regex_match.key, regex_match.url)]
                      ELSE entries,
                      Tail(lines))

\* lines 43-49: the three parsers, starting from the empty map
get_urls(settings) ==
    bmf_urls(epost_urls(form_urls(NoUrls, settings, 1), settings.epostcard),
             settings.BMF)

-----------------------------------------------------------------------------
(* Actions of the URL registry *)

\* main.py line 46: get_urls is the first call of a run
GetUrls(settings) ==
    /\ run = "running"
    /\ call = NoCall
    /\ urls' = get_urls(settings)
    /\ call' = [op |-> "get_urls", settings |-> settings, err |-> "none"]
    /\ UNCHANGED <<irs_files, force_new_download, data_dict, sql_cache,
                   nccs_files, sql_connection, get_from_sql, run>>

\* lines a registry file may hold
RegistryLines ==
    { <<"2020", " ", "=", " ", "http://", "a", ".csv">>,
      <<"2020", "=", "https://", "b", ".zip", " ">>,
      <<"2019", "=", "http://", "a", ".csv">>,
      <<"epostcard", "=", "http://", "e", ".zip">>,
      <<"region1", " ", "=", "http://", "r", ".csv">>,
      <<"#", "2020", "=", "http://", "c", ".csv">>,
      <<"2020", "http://", "a", ".csv">>,
      <<"2020", "=", "http://", "a", ".pdf">>,
      <<"2020", "=", "http://", "d", ".csv", ".gz">>,
      <<>> }

RegistryFiles == UNION { [1..n -> RegistryLines] : n \in 0..MaxLines }

Categories == {"EZ", "Full", "epostcard", "BMF"}

\* the files of settings/urls: the categories in K hold the given lines
Settings(K, lines) == [c \in Categories |-> IF c \in K THEN lines ELSE <<>>]

InitReg ==
    /\ irs_files = EmptyMap
    /\ force_new_download = FALSE
    /\ urls = NoUrls
    /\ data_dict = EmptyMap
    /\ sql_cache = EmptyMap
    /\ nccs_files = EmptyMap
    /\ sql_connection = "None"
    /\ get_from_sql = FALSE
    /\ run = "running"
    /\ call = NoCall

NextReg ==
    /\ call = NoCall
    /\ \E K \in {{"EZ"}, {"epostcard", "BMF"}, Categories}, lines \in RegistryFiles :
          GetUrls(Settings(K, lines))

SpecReg == InitReg /\ [][NextReg]_vars

-----------------------------------------------------------------------------
(* Mixed-type classification *)

\* a cell of a spreadsheet column: its Python type and a rank within the type
Cell(type, v) == [type |-> type, v |-> v]

Cells == { Cell("int", 1), Cell("int", 2), Cell("str", 1), Cell("NoneType", 0) }

Columns == UNION { [1..n -> Cells] : n \in 0..MaxColumn }

\* the types whose values the interpreter can order
Orderable == {"int", "str"}

\* str(e) of the interpreter's exceptions, as the words between single blanks
NotSupported(x, y) ==
    <<"'>'", "not", "supported", "between", "instances", "of", x.type, "and", y.type>>

EmptySequence == <<"max()", "arg", "is", "an", "empty", "sequence">>

\* the builtin max from the i-th item on; every item is compared with the
\* largest one so far by item > maxitem
RECURSIVE max_from(_, _, _)
max_from(a, i, maxitem) ==
    IF i > Len(a) THEN [raised |-> "none", str |-> <<>>]
    ELSE IF a[i].type # maxitem.type \/ a[i].type \notin Orderable
    THEN [raised |-> "TypeError", str |-> NotSupported(a[i], maxitem)]
    ELSE max_from(a, i + 1, IF a[i].v > maxitem.v THEN a[i] ELSE maxitem)

\* line 524: max(a)
max(a) ==
    IF a = <<>> THEN [raised |-> "ValueError", str |-> EmptySequence]
    ELSE max_from(a, 2, a[1])

\* str.rsplit(' ', 3): the last three words and what is before them
rsplit(words) ==
    IF Len(words) < 4 THEN <<words>>
    ELSE <<SubSeq(words, 1, Len(words) - 3), words[Len(words) - 2],
           words[Len(words) - 1], words[Len(words)]>>

Verdict(raised, ret) == [raised |-> raised, ret |-> ret, err |-> "none"]
Broken(raised, err) == [raised |-> raised, ret |-> FALSE, err |-> err]

\* lines 522-534
ismixed(a) ==
    LET e == max(a)
        parts == rsplit(e.str)
    IN  IF e.raised = "none" THEN Verdict(e.raised, FALSE)
        ELSE IF e.raised = "TypeError"
        THEN IF Len(parts) # 4 THEN Broken(e.raised, "ValueError")
             ELSE IF parts[1] # <<"'>'", "not", "supported", "between", "instances", "of">>
             THEN Broken(e.raised, "AssertionError")
             ELSE IF parts[3] # "and" THEN Broken(e.raised, "AssertionError")
             ELSE IF ~(parts[2] # parts[4]) THEN Broken(e.raised, "AssertionError")
             ELSE Verdict(e.raised, TRUE)
        ELSE IF e.str # EmptySequence THEN Broken(e.raised, "AssertionError")
        ELSE Verdict(e.raised, FALSE)

IsMixed(a) ==
    /\ run = "running"
    /\ \E r \in { ismixed(a) } :
           /\ run' = Outcome(r.err)
           /\ call' = [op |-> "ismixed", a |-> a, raised |-> r.raised,
                       ret |-> r.ret, err |-> r.err]
    /\ UNCHANGED <<irs_files, force_new_download, urls, data_dict, sql_cache,
                   nccs_files, sql_connection, get_from_sql>>

NextMixed ==
    \/ \E a \in Columns : IsMixed(a)
    \/ NewSession

SpecMixed == InitSniff /\ [][NextMixed]_vars

-----------------------------------------------------------------------------
(* Warehouse Cache Layer *)

\* the warehouse tables get_sql is asked for, and their columns
TableNames == {"lu_fipsmsa", "nteedocAllEins"}
Warehouse(fname) == IF fname = "lu_fipsmsa" THEN {"EIN", "A", "B"} ELSE {"EIN", "A"}

\* str.upper on a column name
upper(c) ==
    CASE c = "a" -> "A"
      [] c = "b" -> "B"
      [] c = "ein" -> "EIN"
      [] OTHER -> c

Star == "*"
isinstance_list(cols) == cols # Star
ListSet(cols) == { cols[i] : i \in 1..Len(cols) }

\* a dataframe: its columns and the name of its index
Frame(columns, index) == [columns |-> columns, index |-> index]

\* df.set_index(index_col): the column becomes the index
set_index(df, index_col) == Frame(df.columns \ {index_col}, index_col)

\* df.to_csv(..., index=df.index.name is not None): the header that is written
to_csv(df) ==
    Frame(df.columns \cup (IF df.index = "None" THEN {} ELSE {df.index}), "None")

Returned(cache, files, reads, tier, ret) ==
    [cache |-> cache, files |-> files, reads |-> reads, tier |-> tier,
     ret |-> ret, err |-> "none", errinfo |-> ""]

\* an uncaught exception; only the no-connection message names the table
Raised(cache, files, reads, err, fname) ==
    [cache |-> cache, files |-> files, reads |-> reads, tier |-> "none",
     ret |-> Frame({}, "None"), err |-> err,
     errinfo |-> IF err = "NoConnection" THEN fname ELSE ""]

memory_miss_partial(cache, fname, cols) ==
    IF ListSet(cols) \cap cache[fname].columns # {}
    THEN [hit |-> TRUE, ret |-> Frame(ListSet(cols) \cap cache[fname].columns,
                                      cache[fname].index)]
    ELSE [hit |-> FALSE]

\* lines 288-291: the KeyError of a missing column is caught and resolution goes on
memory_miss(cache, fname, cols) == [hit |-> FALSE]

\* lines 282-293: the memory tier; hit is FALSE when resolution falls through
memory_tier(cache, fname, cols) ==
    IF fname \notin DOMAIN cache THEN [hit |-> FALSE]
    ELSE IF isinstance_list(cols)
    THEN IF ListSet(cols) \subseteq cache[fname].columns
         THEN [hit |-> TRUE, ret |-> Frame(ListSet(cols), cache[fname].index)]
         ELSE memory_miss(cache, fname, cols)
    ELSE [hit |-> TRUE, ret |-> cache[fname]]

\* lines 385-391: the final shaping of a frame loaded by tiers 2-4
shape(df, cols) ==
    LET wanted == { c \in ListSet(cols) : c # "EIN" }
    IN  IF cols = Star THEN [ok |-> TRUE, ret |-> df]
        ELSE IF wanted \subseteq df.columns
        THEN [ok |-> TRUE, ret |-> Frame({ upper(c) : c \in wanted }, df.index)]
        ELSE [ok |-> FALSE]

skip_cache_store(cache, fname, df) == cache

\* line 383: self.sql_cache[fname] = df
cache_store(cache, fname, df) == Write(cache, fname, df)

\* lines 382-391: cache the loaded frame, then shape the result
finish(cache, files, reads, tier, fname, cols, df) ==
    LET stored == cache_store(cache, fname, df)
        shaped == shape(df, cols)
    IN  IF shaped.ok THEN Returned(stored, files, reads, tier, shaped.ret)
        ELSE Raised(stored, files, reads, "KeyError", fname)

\* lines 305-307 and 329-332: read a local artifact and set its index
read_local(cache, files, tier, fname, cols, index_col) ==
    LET read == files[<<fname, tier>>]
    IN  IF index_col = "None"
        THEN finish(cache, files, <<tier>>, tier, fname, cols, read)
        ELSE IF index_col \in read.columns
        THEN finish(cache, files, <<tier>>, tier, fname, cols, set_index(read, index_col))
        ELSE Raised(cache, files, <<tier>>, "KeyError", fname)

save_csv_nowhere(files, fname, df) == files

\* lines 376-377: df.to_csv(os.path.join(file_path, fname+'.csv'), ...)
save_csv(files, fname, df) == Write(files, <<fname, "csv">>, to_csv(df))

\* lines 345-377: the live query and the delimited-text artifact it leaves
live_query(cache, files, conn, fname, cols, index_col, force_sql_cols) ==
    LET selected == IF force_sql_cols /\ cols # Star THEN ListSet(cols)
                    ELSE Warehouse(fname)
        known == { upper(c) : c \in selected } \subseteq Warehouse(fname)
        df == Frame({ upper(c) : c \in selected \ {index_col} }, index_col)
        saved == save_csv(files, fname, df)
    IN  IF conn = "closed"
        THEN \* con.select_db on a closed connection
             Raised(cache, files, <<"sql">>, "InterfaceError", fname)
        ELSE IF ~known
        THEN Raised(cache, files, <<"sql">>, "DatabaseError", fname)
        ELSE IF index_col # "None" /\ index_col \notin selected
        THEN Raised(cache, files, <<"sql">>, "KeyError", fname)
        ELSE finish(cache, saved, <<"sql">>, "sql", fname, cols, df)

local_tier_csv_first(files, fname) ==
    IF exists(files, <<fname, "csv">>) THEN "csv"
    ELSE IF exists(files, <<fname, "parquet">>) THEN "parquet"
    ELSE "none"

\* lines 295 and 319: the columnar artifact is looked for before the delimited one
local_tier(files, fname) ==
    IF exists(files, <<fname, "parquet">>) THEN "parquet"
    ELSE IF exists(files, <<fname, "csv">>) THEN "csv"
    ELSE "none"

has_connection_always(conn) == TRUE

sql_auth_keeps_handle(flag, connected, conn) ==
    IF flag /\ connected THEN "open" ELSE conn


\* line 344: self.sql_connection is not None
has_connection(conn) == conn # "None"

get_sql(cache, files, conn, fname, cols, index_col, force_sql_cols) ==
    LET mem == memory_tier(cache, fname, cols)
        tier == local_tier(files, fname)
    IN  IF mem.hit THEN Returned(cache, files, <<>>, "memory", mem.ret)
        ELSE IF tier # "none"
        THEN read_local(cache, files, tier, fname, cols, index_col)
        ELSE IF has_connection(conn)
        THEN live_query(cache, files, conn, fname, cols, index_col, force_sql_cols)
        ELSE Raised(cache, files, <<>>, "NoConnection", fname)

\* lines 207-231: connected tells whether pymysql.connect succeeded; the
\* OperationalError of a failed connect is caught and the handle set to None
sql_auth(flag, connected, conn) ==
    IF flag /\ connected THEN "open" ELSE "None"

\* lines 243-246: the handle is closed and kept; closing it twice raises
close_sql(flag, conn) ==
    IF flag /\ conn = "open" THEN [conn |-> "closed", err |-> "none"]
    ELSE IF flag /\ conn = "closed" THEN [conn |-> conn, err |-> "AlreadyClosed"]
    ELSE [conn |-> conn, err |-> "none"]

-----------------------------------------------------------------------------
(* Actions of the warehouse cache layer *)

SqlAuth(connected) ==
    /\ run = "running"
    /\ sql_connection' = sql_auth(get_from_sql, connected, sql_connection)
    /\ call' = [op |-> "sql_auth", connected |-> connected,
                failed |-> get_from_sql /\ ~connected]
    /\ UNCHANGED <<irs_files, force_new_download, urls, data_dict, sql_cache,
                   nccs_files, get_from_sql, run>>

CloseSql ==
    /\ run = "running"
    /\ \E r \in { close_sql(get_from_sql, sql_connection) } :
           /\ sql_connection' = r.conn
           /\ run' = Outcome(r.err)
           /\ call' = [op |-> "close_sql", was |-> sql_connection, err |-> r.err]
    /\ UNCHANGED <<irs_files, force_new_download, urls, data_dict, sql_cache,
                   nccs_files, get_from_sql>>

GetSql(fname, cols, index_col, force_sql_cols) ==
    /\ run = "running"
    /\ \E r \in { get_sql(sql_cache, nccs_files, sql_connection, fname, cols,
                          index_col, force_sql_cols) } :
           /\ sql_cache' = r.cache
           /\ nccs_files' = r.files
           /\ run' = Outcome(r.err)
           /\ call' = [op |-> "get_sql", fname |-> fname, cols |-> cols,
                       index_col |-> index_col, force_sql_cols |-> force_sql_cols,
                       was_cached |-> fname \in DOMAIN sql_cache,
                       after_failed_auth |-> call.op = "sql_auth" /\ call.failed,
                       reads |-> r.reads, tier |-> r.tier, ret |-> r.ret,
                       err |-> r.err, errinfo |-> r.errinfo]
    /\ UNCHANGED <<irs_files, force_new_download, urls, data_dict,
                   sql_connection, get_from_sql>>

\* the column arguments get_sql is called with
ColumnArgs == { Star, <<"A">>, <<"EIN", "A">>, <<"A", "B">>, <<"a">>, <<"Z">> }

\* a complete copy of a warehouse table kept in downloads/nccs
FullCopy(fname) == Frame(Warehouse(fname), "None")

\* the artifacts downloads/nccs may hold when the program starts
LocalCopies ==
    { [p \in present |-> FullCopy(p[1])] :
        present \in SUBSET ({"lu_fipsmsa"} \X {"csv", "parquet"}) }

InitSql ==
    /\ irs_files = EmptyMap
    /\ force_new_download = FALSE
    /\ urls = NoUrls
    /\ data_dict = EmptyMap
    /\ sql_cache = EmptyMap
    /\ nccs_files \in LocalCopies
    /\ sql_connection = "None"
    /\ get_from_sql \in BOOLEAN
    /\ run = "running"
    /\ call = NoCall

NextSql ==
    \/ \E connected \in BOOLEAN : SqlAuth(connected)
    \/ CloseSql
    \/ \E fname \in TableNames, cols \in ColumnArgs,
          index_col \in {"EIN", "None"}, force_sql_cols \in BOOLEAN :
         GetSql(fname, cols, index_col, force_sql_cols)
    \/ NewSession

SpecSql == InitSql /\ [][NextSql]_vars

-----------------------------------------------------------------------------
(* Dtype reconciliation of a live-query result *)

\* a value of a result column: a text (its characters) or a number
Text(chars) == [type |-> "str", chars |-> chars, n |-> 0]
Num(n) == [type |-> "num", chars |-> <<>>, n |-> n]
NaN == [type |-> "nan", chars |-> <<>>, n |-> 0]

DigitChars == <<"0", "1", "2", "3", "4", "5", "6", "7", "8", "9">>
IsDigit(ch) == \E d \in 1..10 : DigitChars[d] = ch
DigitValue(ch) == (CHOOSE d \in 1..10 : DigitChars[d] = ch) - 1

\* str(n) for a natural number
RECURSIVE str(_)
str(n) == IF n < 10 THEN <<DigitChars[n + 1]>>
          ELSE str(n \div 10) \o <<DigitChars[(n % 10) + 1]>>

\* the number a digit string denotes
RECURSIVE parse(_)
parse(chars) ==
    IF chars = <<>> THEN 0
    ELSE 10 * parse(SubSeq(chars, 1, Len(chars) - 1)) + DigitValue(chars[Len(chars)])

\* c.astype(str)
astype_str(c) ==
    [i \in 1..Len(c) |-> IF c[i].type = "num" THEN Text(str(c[i].n)) ELSE c[i]]

\* pd.to_numeric(c, errors='coerce'): what is not a number becomes NaN
to_numeric(c) ==
    [i \in 1..Len(c) |->
        IF c[i].type = "num" THEN c[i]
        ELSE IF c[i].chars # <<>> /\ \A k \in 1..Len(c[i].chars) : IsDigit(c[i].chars[k])
        THEN Num(parse(c[i].chars))
        ELSE NaN]

fillna_nothing(c, value) == c

\* .fillna(0)
fillna(c, value) == [i \in 1..Len(c) |-> IF c[i].type = "nan" THEN Num(value) ELSE c[i]]

\* the dtypes a reference column may have; line 364 lists the numeric ones
Dtypes == {"object", "float64", "int32", "datetime64"}
NumericTypes == {"float64", "int64", "float32", "int32"}

\* lines 359-371: one column of the result against the reference schema
dtype_matcher(c, name, match_dtypes) ==
    IF name \in DOMAIN match_dtypes
    THEN IF match_dtypes[name] = "object" THEN astype_str(c)
         ELSE IF match_dtypes[name] \in NumericTypes THEN fillna(to_numeric(c), 0)
         ELSE astype_str(c)
    ELSE astype_str(c)

\* line 374: df.apply(_dtype_matcher)
apply_dtype_matcher(df, match_dtypes) ==
    [name \in DOMAIN df |-> dtype_matcher(df[name], name, match_dtypes)]

Reconcile(df, match_dtypes) ==
    /\ run = "running"
    /\ call' = [op |-> "reconcile", df |-> df, match_dtypes |-> match_dtypes,
                ret |-> apply_dtype_matcher(df, match_dtypes)]
    /\ UNCHANGED <<irs_files, force_new_download, urls, data_dict, sql_cache,
                   nccs_files, sql_connection, get_from_sql, run>>

\* the values a live query returns in a column
SourceValues == { Text(<<"1">>), Text(<<"x">>), Num(2), Text(<<"1", "2">>) }

\* query results with the columns A and B
SourceFrames ==
    UNION { [{"A", "B"} -> [1..n -> SourceValues]] : n \in 0..MaxRows }

\* reference schemas: a dtype for some of the columns
ReferenceSchemas == UNION { [names -> Dtypes] : names \in SUBSET {"A", "B"} }

NextDtype ==
    /\ call = NoCall
    /\ \E df \in SourceFrames, match_dtypes \in ReferenceSchemas :
          Reconcile(df, match_dtypes)

SpecDtype == InitSniff /\ [][NextDtype]_vars

-----------------------------------------------------------------------------
(* Properties of the file acquirer *)

IsDownloadFile(c) == c.op = "download_file"

\* C1: a download_file call issues a network request (exactly one, for its
\* URL) exactly when the global force flag or the local force flag is set or
\* the target named by the URL's final path segment does not exist; no step
\* removes a file, and every call that does not end in the invalid-URL error
\* leaves its target on disk.  Hence, starting with the target absent, the
\* first unforced acquire requests once and every later unforced acquire of
\* that URL requests nothing.
C1_RequestExactlyWhenForcedOrAbsent ==
    [][ /\ \A p \in DOMAIN irs_files : p \in DOMAIN irs_files'
        /\ IsDownloadFile(call') =>
              /\ (call'.net # <<>>) <=>
                    \/ force_new_download
                    \/ call'.force
                    \/ FName(call'.url) \notin DOMAIN irs_files
              /\ call'.net \in {<<>>, <<call'.url>>}
              /\ call'.err # "InvalidURL" => FName(call'.url) \in DOMAIN irs_files'
      ]_vars

\* an unforced acquire that found its target on disk and returned without a request
C1_Witness ==
    /\ IsDownloadFile(call)
    /\ ~force_new_download /\ ~call.force
    /\ call.had_local
    /\ call.net = <<>>
    /\ call.err = "none"

\* C10: download_file ends in the invalid-URL error exactly when it issued a
\* request whose response has an HTML content-type and a body holding the
\* 'Page Not Found' marker; that call made exactly one request and left the
\* acquisition directory, a pre-existing target included, as it was.
C10_InvalidUrlExactlyOnHtmlMarker ==
    [][ IsDownloadFile(call') =>
          /\ (call'.err = "InvalidURL") <=>
                (call'.net # <<>> /\ call'.resp.html /\ call'.resp.marker)
          /\ call'.err = "InvalidURL" =>
                (Len(call'.net) = 1 /\ irs_files' = irs_files)
      ]_vars

\* an invalid-URL failure of a forced acquire whose target was already on disk
C10_Witness ==
    /\ IsDownloadFile(call)
    /\ call.err = "InvalidURL"
    /\ call.had_local
    /\ exists(irs_files, FName(call.url))

-----------------------------------------------------------------------------
(* Properties of the loaders *)

IsAuxLoader(c) == c.op \in {"download_epostcard", "download_bmf"}

C8_EpostcardAlwaysRequests ==
    (call.op = "download_epostcard" /\ urls.epostcard # EmptyMap) =>
        call.net = <<urls.epostcard>>

\* the file was on disk, the global flag was off, and the URL was requested
C8_Witness ==
    /\ call.op = "download_epostcard"
    /\ call.had_local
    /\ ~force_new_download
    /\ call.net = <<urls.epostcard>>

\* the first requested form without a URL for the release year, 0 if none
MissingAt(urlmap) ==
    LET missing == { i \in 1..Len(forms) : core_file_year \notin DOMAIN urlmap[forms[i]] }
    IN  IF missing = {} THEN 0
        ELSE CHOOSE i \in missing : \A j \in missing : i <= j

\* C9: when the URL map has no entry for a requested form at the release
\* year, download() ends in an error at or before that form; on reaching the
\* form the error names the year and the form; no request is issued for that
\* form or a later one; the tables of the earlier forms stay registered and
\* the registry entries of that form and the later ones are left as they were.
C9_MissingUrlIsFatal ==
    [][ (call'.op = "download" /\ MissingAt(urls) # 0) =>
          LET k == MissingAt(urls) IN
          /\ \A n \in 1..Len(call'.net) :
                \E j \in 1..(k - 1) : call'.net[n] = urls[forms[j]][core_file_year]
          /\ call'.err # "none"
          /\ call'.at <= k
          /\ call'.at = k =>
                /\ call'.err = "MissingURL"
                /\ call'.errinfo = <<core_file_year, forms[k]>>
                /\ \A j \in 1..(k - 1) :
                      /\ forms[j] \in DOMAIN data_dict'
                      /\ data_dict'[forms[j]].SOURCE = FName(urls[forms[j]][core_file_year])
          /\ \A j \in k..Len(forms) :
                /\ forms[j] \in DOMAIN data_dict' <=> forms[j] \in DOMAIN data_dict
                /\ forms[j] \in DOMAIN data_dict => data_dict'[forms[j]] = data_dict[forms[j]]
      ]_vars

\* the second form had no URL: the first was fetched and registered, then the run ended
C9_Witness ==
    /\ call.op = "download"
    /\ call.err = "MissingURL"
    /\ call.at = 2
    /\ call.net = <<EzUrl>>
    /\ "EZ" \in DOMAIN data_dict

-----------------------------------------------------------------------------
(* Properties of the warehouse cache layer *)

IsGetSql(c) == c.op = "get_sql"

\* the memory cache answers a request for cols of table fname
MemorySatisfies(cache, fname, cols) ==
    /\ fname \in DOMAIN cache
    /\ cols = Star \/ \A i \in 1..Len(cols) : cols[i] \in cache[fname].columns

\* C2: when the memory cache does not satisfy a get_sql request and both a
\* .parquet and a .csv artifact exist for the table name, only the .parquet
\* artifact is read (no .csv read, no live query), a result that is returned
\* comes from it, and the .csv artifact is left as it was.
C2_ColumnarArtifactWins ==
    [][ ( /\ IsGetSql(call')
          /\ ~MemorySatisfies(sql_cache, call'.fname, call'.cols)
          /\ <<call'.fname, "parquet">> \in DOMAIN nccs_files
          /\ <<call'.fname, "csv">> \in DOMAIN nccs_files ) =>
          /\ call'.reads = <<"parquet">>
          /\ call'.err = "none" => call'.tier = "parquet"
          /\ nccs_files' = nccs_files
      ]_vars

\* a result read from the columnar artifact while a delimited-text one exists
C2_Witness ==
    /\ IsGetSql(call)
    /\ call.err = "none"
    /\ call.tier = "parquet"
    /\ <<call.fname, "csv">> \in DOMAIN nccs_files

\* the tiers consulted after a memory miss, in order
AfterMemory(files, conn, fname) ==
    IF <<fname, "parquet">> \in DOMAIN files THEN <<"parquet">>
    ELSE IF <<fname, "csv">> \in DOMAIN files THEN <<"csv">>
    ELSE IF conn # "None" THEN <<"sql">>
    ELSE <<>>

\* C3: when the table name is cached and a requested list holds a column that
\* is not among the cached columns, nothing is returned from memory and
\* resolution goes on to the .parquet artifact, else the .csv artifact, else
\* the live query, else the fatal error.
C3_MissingColumnIsMemoryMiss ==
    [][ ( /\ IsGetSql(call')
          /\ call'.fname \in DOMAIN sql_cache
          /\ call'.cols # Star
          /\ \E i \in 1..Len(call'.cols) :
                call'.cols[i] \notin sql_cache[call'.fname].columns ) =>
          /\ call'.tier # "memory"
          /\ call'.reads = AfterMemory(nccs_files, sql_connection, call'.fname)
          /\ call'.err = "none" => <<call'.tier>> = call'.reads
          /\ call'.reads = <<>> => call'.err = "NoConnection"
      ]_vars

\* a cached table was asked for a list it could not serve and the answer came from disk
C3_Witness ==
    /\ IsGetSql(call)
    /\ call.was_cached
    /\ call.cols # Star
    /\ call.err = "none"
    /\ call.tier \in {"parquet", "csv"}

\* C4: a get_sql call that returns a result of the .parquet tier, the .csv
\* tier or the live query leaves the table name in the memory cache, and a
\* get_sql for the same name with columns '*' that follows it immediately is
\* answered from memory without any read or query.
C4_LoadedTableIsCached ==
    [][ /\ ( IsGetSql(call') /\ call'.err = "none"
             /\ call'.tier \in {"parquet", "csv", "sql"} ) =>
             call'.fname \in DOMAIN sql_cache'
        /\ ( /\ IsGetSql(call) /\ call.err = "none"
             /\ call.tier \in {"parquet", "csv", "sql"}
             /\ IsGetSql(call') /\ call'.fname = call.fname
             /\ call'.cols = Star ) =>
             (call'.tier = "memory" /\ call'.reads = <<>> /\ call'.err = "none")
      ]_vars

\* a '*' request answered from memory for a table that is cached
C4_Witness ==
    /\ IsGetSql(call)
    /\ call.was_cached
    /\ call.cols = Star
    /\ call.tier = "memory"
    /\ call.reads = <<>>

\* C5: get_sql queries the warehouse only if sql_connection is not None; when
\* neither the memory cache nor a .parquet nor a .csv artifact satisfies the
\* request and sql_connection is None, the call ends in the fatal error that
\* names the table and changes neither the memory cache nor the artifacts.
C5_NoConnectionIsFatal ==
    [][ IsGetSql(call') =>
          /\ (\E i \in 1..Len(call'.reads) : call'.reads[i] = "sql") =>
                sql_connection # "None"
          /\ ( /\ ~MemorySatisfies(sql_cache, call'.fname, call'.cols)
               /\ <<call'.fname, "parquet">> \notin DOMAIN nccs_files
               /\ <<call'.fname, "csv">> \notin DOMAIN nccs_files
               /\ sql_connection = "None" ) =>
               /\ call'.err = "NoConnection"
               /\ call'.errinfo = call'.fname
               /\ sql_cache' = sql_cache
               /\ nccs_files' = nccs_files
      ]_vars

\* the fatal error for a table found nowhere, with no connection
C5_Witness ==
    /\ IsGetSql(call)
    /\ call.err = "NoConnection"
    /\ call.errinfo = call.fname
    /\ sql_connection = "None"

\* every column of a frame, its index included
AllColumns(df) == df.columns \cup (IF df.index = "None" THEN {} ELSE {df.index})

\* C6: every get_sql call that returns gives, for columns '*', all columns of
\* the named table and, for a list, exactly the requested columns other than
\* the index key under upper-cased names, whichever tier answered and whatever
\* calls came before.  Stated for calls with the default index key, EIN.
C6_ResultColumns ==
    (IsGetSql(call) /\ call.err = "none" /\ call.index_col = "EIN") =>
        IF call.cols = Star
        THEN AllColumns(call.ret) = Warehouse(call.fname)
        ELSE call.ret.columns =
                { upper(call.cols[i]) : i \in { j \in 1..Len(call.cols) : call.cols[j] # "EIN" } }

-----------------------------------------------------------------------------
(* Properties of the format normalizer and the archive expander *)

IsConvert(c) == c.op = "convert_to_parquet"

Canonical(file_path) == <<file_path[1], "parquet">>

\* C11: convert_to_parquet is idempotent.  A call made while the canonical
\* artifact exists beside the path returns that artifact's path, opens no
\* file for reading, writes nothing and leaves the disk as it was; hence, over
\* any sequence of normalize calls, no canonical artifact is written twice.
C11_CanonicalWrittenAtMostOnce ==
    [][ IsConvert(call') =>
          /\ call'.had_canonical =>
                /\ call'.ret = Canonical(call'.file_path)
                /\ call'.read = <<>>
                /\ call'.wrote = <<>>
                /\ call'.err = "none"
                /\ irs_files' = irs_files
          /\ is_unique(call'.writes) ]_vars

\* a call answered by the artifact that an earlier call of the sequence wrote
C11_Witness ==
    /\ IsConvert(call)
    /\ call.had_canonical
    /\ call.wrote = <<>>
    /\ \E i \in 1..Len(call.writes) : call.writes[i] = Canonical(call.file_path)

IsSniff(c) == c.op = "sniff"

\* the first line of a file that is not a blank line; the empty string at
\* the end of the file
FirstNonBlank(lines) ==
    IF \A i \in 1..Len(lines) : lines[i] = <<"\n">> THEN <<>>
    ELSE lines[CHOOSE i \in 1..Len(lines) :
                 /\ lines[i] # <<"\n">>
                 /\ \A j \in 1..(i - 1) : lines[j] = <<"\n">>]

\* C12: the delimiter is sniffed on the first line that is not blank; pipe
\* is chosen if the line contains '|', else comma if it contains ',', else
\* space if it contains ' '; and whenever the line contains one of the three
\* characters the sniffing site of download chooses the same delimiter as
\* the one of convert_to_parquet.
C12_DelimiterPriority ==
    IsSniff(call) =>
      LET line == FirstNonBlank(call.lines)
          pipe == In("|", line)
          comma == In(",", line)
          space == In(" ", line)
      IN  /\ call.first_line = line
          /\ call.download_first_line = line
          /\ pipe => call.delim = "|"
          /\ (~pipe /\ comma) => call.delim = ","
          /\ (~pipe /\ ~comma /\ space) => call.delim = " "
          /\ (pipe \/ comma \/ space) => call.download_delim = call.delim

\* a first line after a blank one, holding a comma before a pipe
C12_Witness ==
    /\ IsSniff(call)
    /\ call.lines = << <<"\n">>, <<"a", ",", "|", "\n">> >>
    /\ call.delim = "|"
    /\ call.download_delim = "|"

Logged(c, msg) == \E i \in 1..Len(c.log) : c.log[i] = msg

\* C13: when the first non-blank line of a .dat file holds none of pipe,
\* comma and space, the normalizer logs the warning and the run continues.
C13_UnsniffableContinues ==
    (IsConvert(call) /\ Logged(call, "unable to determine delimiter")) =>
        /\ call.err = "none"
        /\ run = "running"

-----------------------------------------------------------------------------
(* Properties of the core file loader *)

IsDownload(c) == c.op = "download"

\* the extensions download has a reader for (lines 153-166)
Readable == {"xlsx", "csv", "parquet", "dat"}

\* the form download stopped at resolves to a file convert_to_parquet passes through
StoppedAtUnsupported(c) ==
    /\ c.at \in 1..Len(forms)
    /\ core_file_year \in DOMAIN urls[forms[c.at]]
    /\ urls[forms[c.at]][core_file_year].ext \notin Readable \cup {"zip"}

\* C14: a file with an unsupported extension is logged and the loader goes on:
\* download does not end at a form because its file, once acquired, has an
\* extension it cannot read.
C14_UnsupportedExtensionContinues ==
    (IsDownload(call) /\ call.err # "none" /\ StoppedAtUnsupported(call)) =>
        call.err = "InvalidURL"

Resolved(form) == urls[form][core_file_year]

\* C16: when download() completes, the registry holds one table per requested
\* form, keyed by the form's name; each table is indexed by EIN (duplicates
\* allowed) and its SOURCE is the final path segment of the URL resolved for
\* the form and the release year; every request went to one of those URLs.
C16_RegistryAfterDownload ==
    (IsDownload(call) /\ call.err = "none") =>
        /\ DOMAIN data_dict = { forms[i] : i \in 1..Len(forms) }
        /\ \A i \in 1..Len(forms) :
              /\ core_file_year \in DOMAIN urls[forms[i]]
              /\ data_dict[forms[i]].bound
              /\ data_dict[forms[i]].EIN = "index"
              /\ data_dict[forms[i]].SOURCE = FName(Resolved(forms[i]))
        /\ \A n \in 1..Len(call.net) :
              \E i \in 1..Len(forms) : call.net[n] = Resolved(forms[i])

\* a completed download whose first table repeats an identifier and whose
\* SOURCE differs from the name of the columnar file it was read from
C16_Witness ==
    /\ IsDownload(call)
    /\ call.err = "none"
    /\ call.net # <<>>
    /\ ~is_unique(read_partition(data_dict[forms[1]].data))
    /\ data_dict[forms[1]].SOURCE = <<"ez", "csv">>
    /\ exists(irs_files, <<"ez", "parquet">>)

-----------------------------------------------------------------------------
(* Properties of the warehouse connection *)

\* the local copy get_sql reads has the index column and the columns asked for
LocalCopySatisfies(c, copy) ==
    /\ c.index_col = "None" \/ c.index_col \in copy.columns
    /\ c.cols = Star \/ (ListSet(c.cols) \ {"EIN"}) \subseteq (copy.columns \ {c.index_col})

\* C17: a failed connection in sql_auth leaves the run going with no
\* connection (sql_connection is None); a get_sql made with no connection for
\* a table that has a local copy issues no live query, and it returns a frame,
\* from memory or from the copy, when the copy holds the requested columns.
C17_FailedAuthFallsBackToDisk ==
    [][ /\ (call'.op = "sql_auth" /\ call'.failed) =>
              /\ sql_connection' = "None"
              /\ run' = "running"
        /\ (IsGetSql(call') /\ sql_connection = "None"
               /\ local_tier(nccs_files, call'.fname) # "none") =>
              LET copy == nccs_files[<<call'.fname, local_tier(nccs_files, call'.fname)>>] IN
              /\ \A i \in 1..Len(call'.reads) : call'.reads[i] # "sql"
              /\ call'.tier # "sql"
              /\ sql_connection' = "None"
              /\ nccs_files' = nccs_files
              /\ call'.err \in {"none", "KeyError"}
              /\ (call'.tier = "memory" \/ LocalCopySatisfies(call', copy)) =>
                    call'.err = "none"
      ]_vars

\* the call right after a failed sql_auth is answered from the columnar copy
C17_Witness ==
    /\ IsGetSql(call)
    /\ call.after_failed_auth
    /\ get_from_sql
    /\ sql_connection = "None"
    /\ call.tier = "parquet"
    /\ call.err = "none"

-----------------------------------------------------------------------------
(* Properties of the archive expander *)

\* a download_file call that handed its target to unzip_file, which opened it
Unzipped(c) ==
    /\ IsDownloadFile(c)
    /\ c.url.ext = "zip"
    /\ c.err \notin {"InvalidURL", "BadZipFile"}

\* C15: unzip_file extracts every entry of the archive, logs the warning
\* exactly when the entry count is not one, and returns what convert_to_parquet
\* returns for the first listed entry (the entry's own path or the canonical
\* artifact beside it), whatever the entry count.
C15_ReturnsFirstEntryNormalized ==
    (Unzipped(call) /\ call.err = "none") =>
      LET unzipped_files == irs_files[FName(call.url)].entries IN
      /\ \A i \in 1..Len(unzipped_files) : exists(irs_files, unzipped_files[i])
      /\ Logged(call, "WARNING: more or less than one file") <=> Len(unzipped_files) # 1
      /\ \E i \in 1..Len(unzipped_files) :
            /\ i = 1
            /\ call.ret \in {unzipped_files[i], Canonical(unzipped_files[i])}

-----------------------------------------------------------------------------
(* Properties of the URL registry *)

IsGetUrls(c) == c.op = "get_urls"

Spaces == { <<>>, <<" ">> }

\* the line grammar <key> = <url>: a key, '=', and a URL (a scheme and text
\* without blanks) that ends in a recognized extension and ends the line
GrammarLines ==
    { <<key>> \o s1 \o <<"=">> \o s2 \o <<scheme, text, ext>> \o s3 :
        key \in Years \cup Regions \cup {"epostcard"},
        s1 \in Spaces, s2 \in Spaces, s3 \in Spaces,
        scheme \in Schemes, text \in {"a", "b", "c", "d", "e", "r"}, ext \in Extensions }

Grammatical(lines) == SelectSeq(lines, LAMBDA l : l \in GrammarLines)

\* C18: parsing never stops at a line.  A comment line or a line outside the
\* grammar adds no entry and raises no error, and the matching lines around it
\* are parsed: the URL map is the one built from the grammatical lines alone.
C18_MalformedLinesAreSkipped ==
    IsGetUrls(call) =>
        /\ call.err = "none"
        /\ urls = get_urls([c \in Categories |-> Grammatical(call.settings[c])])

\* the same files with their lines in the order p, or with line i written twice
Reordered(settings, p) ==
    [c \in Categories |->
        IF settings[c] = <<>> THEN <<>> ELSE [i \in DOMAIN p |-> settings[c][p[i]]]]

Doubled(settings, i) ==
    [c \in Categories |->
        IF settings[c] = <<>> THEN <<>>
        ELSE SubSeq(settings[c], 1, i) \o SubSeq(settings[c], i, Len(settings[c]))]

\* the longest file of the settings; the others are empty
FileOf(settings) == settings[CHOOSE c \in Categories :
                                \A d \in Categories : Len(settings[d]) <= Len(settings[c])]

AllValid(lines) == \A i \in 1..Len(lines) : lines[i] \in GrammarLines

\* the URL of a grammatical line: its tokens after the key, '=' and the blanks
UrlText(line) == SelectSeq(Tail(line), LAMBDA t : t \notin {" ", "="})

\* no two lines give one key two different URLs
ConflictFree(lines) ==
    \A i, j \in 1..Len(lines) :
        lines[i][1] = lines[j][1] => UrlText(lines[i]) = UrlText(lines[j])

OrderIndependent(settings) ==
    \A p \in Perms(1..Len(FileOf(settings))) : get_urls(Reordered(settings, p)) = urls

Idempotent(settings) ==
    \A i \in 1..Len(FileOf(settings)) : get_urls(Doubled(settings, i)) = urls

\* C19: registry parsing is idempotent and order-independent: for files of
\* valid lines, writing a line twice gives the map of writing it once, and the
\* map does not depend on the order of the lines.
C19_IdempotentOrderIndependent ==
    (IsGetUrls(call) /\ AllValid(FileOf(call.settings))) =>
        /\ Idempotent(call.settings)
        /\ OrderIndependent(call.settings)

\* C19, as it holds: writing a valid line twice gives the map of writing it
\* once; the map does not depend on the order of the lines when no two lines
\* give the same key different URLs.
C19_OrderIndependentWithoutConflicts ==
    (IsGetUrls(call) /\ AllValid(FileOf(call.settings))) =>
        /\ Idempotent(call.settings)
        /\ ConflictFree(FileOf(call.settings)) => OrderIndependent(call.settings)

\* a file of three valid lines with different keys, two of them parsed into
\* the map of a form
C19_Witness ==
    /\ IsGetUrls(call)
    /\ AllValid(FileOf(call.settings))
    /\ ConflictFree(FileOf(call.settings))
    /\ Len(call.settings["EZ"]) = 3
    /\ DOMAIN urls["EZ"] = {2019, 2020}
    /\ urls["BMF"] # EmptyMap

-----------------------------------------------------------------------------
(* Properties of the mixed-type classification *)

\* C20: ismixed always returns a verdict and raises nothing of its own; the
\* verdict is mixed exactly when max over the column raised the comparison
\* error, and uniform when max was computed or the column is empty.
C20_VerdictFollowsComparisonError ==
    call.op = "ismixed" =>
        /\ call.err = "none"
        /\ call.ret <=> call.raised = "TypeError"

-----------------------------------------------------------------------------
(* Properties of the dtype reconciliation *)

\* a value that is a number or the text of one
ValidNumber(v) ==
    \/ v.type = "num"
    \/ v.type = "str" /\ v.chars # <<>>
          /\ \A k \in 1..Len(v.chars) : v.chars[k] \in {"0", "1", "2", "3", "4",
                                                        "5", "6", "7", "8", "9"}

\* the same value, as text and as a number
SameValue(text, number) ==
    \/ text.type = "num" /\ number.n = text.n
    \/ text.type = "str" /\ str(number.n) = text.chars

\* C21: with a reference schema, a column the reference holds as textual
\* becomes text; a column it holds as numeric becomes numeric, every value
\* that is not a valid number being replaced by zero; a column of another
\* category, or one the reference does not have, becomes text.
C21_ColumnsFollowReference ==
    call.op = "reconcile" =>
      \A name \in DOMAIN call.df :
        LET given == call.df[name]
            result == call.ret[name]
            numeric == /\ name \in DOMAIN call.match_dtypes
                       /\ call.match_dtypes[name] \in {"float64", "int64", "float32", "int32"}
        IN  /\ Len(result) = Len(given)
            /\ \A i \in 1..Len(given) :
                  IF numeric
                  THEN /\ result[i].type = "num"
                       /\ IF ValidNumber(given[i]) THEN SameValue(given[i], result[i])
                          ELSE result[i].n = 0
                  ELSE /\ result[i].type = "str"
                       /\ IF given[i].type = "str" THEN result[i] = given[i]
                          ELSE SameValue(result[i], given[i])

\* the example: A = ["1", "12"] textual, B = ["1", "x"] numeric
C21_Witness ==
    /\ call.op = "reconcile"
    /\ call.match_dtypes = [A |-> "object", B |-> "float64"]
    /\ call.df = [A |-> <<Text(<<"1">>), Text(<<"1", "2">>)>>,
                  B |-> <<Text(<<"1">>), Text(<<"x">>)>>]
    /\ call.ret = [A |-> <<Text(<<"1">>), Text(<<"1", "2">>)>>,
                   B |-> <<Num(1), Num(0)>>]

-----------------------------------------------------------------------------
(* Properties of the live query *)

\* C22: every get_sql call resolved by a live query leaves the delimited-text
\* artifact of its table name; the program never removes an artifact; and a
\* call that goes to the warehouse does so only while the name has no
\* artifact. Hence, over any sequence of calls and sessions, a name that was
\* once resolved by a live query is never queried again.
C22_AtMostOneLiveQuery ==
    [][ /\ \A fname \in TableNames :
             exists(nccs_files, <<fname, "csv">>) => exists(nccs_files', <<fname, "csv">>)
        /\ (IsGetSql(call') /\ call'.tier = "sql") =>
             exists(nccs_files', <<call'.fname, "csv">>)
        /\ (IsGetSql(call') /\ call'.reads = <<"sql">>) =>
             ~exists(nccs_files, <<call'.fname, "csv">>) ]_vars

\* in a later session with an open connection, a table that only a live
\* query can have left on disk is read from its delimited-text artifact
C22_Witness ==
    /\ IsGetSql(call)
    /\ call.fname = "nteedocAllEins"
    /\ ~call.was_cached
    /\ sql_connection = "open"
    /\ call.reads = <<"csv">>
    /\ call.tier = "csv"

-----------------------------------------------------------------------------
(* Properties of a re-download *)

\* C23: after a download_file call that performed a download and returned an
\* artifact path, the artifact at that path holds the data of the bytes just
\* written to the target; an artifact derived from an earlier download is
\* never returned in their place.
C23_ReturnsDownloadedContent ==
    (IsDownloadFile(call) /\ call.net # <<>> /\ call.err = "none" /\ call.ret # None) =>
      /\ exists(irs_files, call.ret)
      /\ irs_files[call.ret].data = irs_files[FName(call.url)].data

-----------------------------------------------------------------------------
(* Properties of the teardown *)

IsCloseSql(c) == c.op = "close_sql"

\* the call found the table neither in memory nor in downloads/nccs
InNoTier(c) == c.tier # "memory" /\ c.reads \in {<<>>, <<"sql">>}

\* C24: close_sql closes the connection exactly when sql_auth opened one;
\* after close_sql no get_sql call goes to the warehouse, and a table found
\* in no memory or on-disk tier is reported by the error "no active
\* connection" that names the table.
C24_NoLiveQueryAfterClose ==
    /\ IsCloseSql(call) =>
          /\ call.was = "open" => sql_connection = "closed"
          /\ call.was = "None" => sql_connection = "None"
    /\ (IsGetSql(call) /\ sql_connection = "closed" /\ InNoTier(call)) =>
          /\ call.reads = <<>>
          /\ call.err = "NoConnection"
          /\ call.errinfo = call.fname

-----------------------------------------------------------------------------
(* Properties of a wider request after a narrower one *)

\* the columns a request asks for: all of the table, or the listed ones
\* (EIN is carried by the index and left out of the selection, line 388)
Requested(c) ==
    IF c.cols = Star THEN Warehouse(c.fname) ELSE ListSet(c.cols) \ {"EIN"}

\* C25: whatever get_sql calls came before, a call with an open connection
\* that asks for columns of the warehouse table returns them: no earlier
\* narrower request leaves a cache entry or an artifact that makes the call
\* fail or return fewer columns.
C25_WiderRequestIsServed ==
    ( /\ IsGetSql(call)
      /\ sql_connection = "open"
      /\ call.index_col = "None"
      /\ call.cols # Star => ListSet(call.cols) \subseteq Warehouse(call.fname) ) =>
      /\ call.err = "none"
      /\ Requested(call) \subseteq
           call.ret.columns \cup (IF call.ret.index = "None" THEN {} ELSE {call.ret.index})

====
